---- MODULE Spec2Model ----
(***************************************************************************)
(* Model of github.com/oneumyvakin/numa (numa.go): GetNodes and the helpers *)
(* parseMemInfo, parseCpuList, calculateAvailableMemory, getWatermarkLow.   *)
(*                                                                         *)
(* Text is modelled as a sequence of one-character strings, so that the    *)
(* strings/strconv functions are computed character by character.  A file  *)
(* read through bufio.Scanner is a sequence of lines (each a text without   *)
(* its terminator); a file read through os.ReadFile is one text.            *)
(*                                                                         *)
(* uint64 is modelled as the integers modulo 2^UintBits.                   *)
(***************************************************************************)
EXTENDS Integers, Sequences, FiniteSets, TLC

\* ------------------------------------------------------------------ bounds
UintBits == 20          \* width of the unsigned type of the model
MaxEntries == 2         \* longest directory listing
MaxKB == 8              \* largest MemFree (in kB) compared by monotonicity

\* ------------------------------------------------------- program constants
PageSize == 4096        \* os.Getpagesize()
KB == 1024              \* the factor of "t * 1024"

Modulus == 2 ^ UintBits

\* ------------------------------------------------------------ package strings
WhiteSpace == {" ", "\t", "\n", "\r"}

HasPrefix(s, p) == Len(s) >= Len(p) /\ SubSeq(s, 1, Len(p)) = p

TrimPrefix(s, p) == IF HasPrefix(s, p) THEN SubSeq(s, Len(p) + 1, Len(s)) ELSE s

RECURSIVE TrimRight(_, _)
TrimRight(s, cutset) ==
    IF s # <<>> /\ s[Len(s)] \in cutset
    THEN TrimRight(SubSeq(s, 1, Len(s) - 1), cutset)
    ELSE s

RECURSIVE TrimLeft(_, _)
TrimLeft(s, cutset) ==
    IF s # <<>> /\ s[1] \in cutset
    THEN TrimLeft(SubSeq(s, 2, Len(s)), cutset)
    ELSE s

TrimSpace(s) == TrimLeft(TrimRight(s, WhiteSpace), WhiteSpace)

\* strings.Split(s, sep) for a one-character sep: always at least one segment
RECURSIVE SplitFrom(_, _, _)
SplitFrom(s, sep, cur) ==
    IF s = <<>> THEN <<cur>>
    ELSE IF s[1] = sep
         THEN <<cur>> \o SplitFrom(SubSeq(s, 2, Len(s)), sep, <<>>)
         ELSE SplitFrom(SubSeq(s, 2, Len(s)), sep, Append(cur, s[1]))

Split(s, sep) == SplitFrom(s, sep, <<>>)

\* strings.Fields(s): the maximal runs of non-space characters
RECURSIVE FieldsFrom(_, _)
FieldsFrom(s, cur) ==
    IF s = <<>> THEN (IF cur = <<>> THEN <<>> ELSE <<cur>>)
    ELSE IF s[1] \in WhiteSpace
         THEN (IF cur = <<>> THEN <<>> ELSE <<cur>>)
              \o FieldsFrom(SubSeq(s, 2, Len(s)), <<>>)
         ELSE FieldsFrom(SubSeq(s, 2, Len(s)), Append(cur, s[1]))

Fields(s) == FieldsFrom(s, <<>>)

\* strings.Replace(s, old, "", -1): every non-overlapping old removed, left to right
RECURSIVE RemoveAll(_, _)
RemoveAll(s, old) ==
    IF s = <<>> THEN <<>>
    ELSE IF HasPrefix(s, old)
         THEN RemoveAll(SubSeq(s, Len(old) + 1, Len(s)), old)
         ELSE <<s[1]>> \o RemoveAll(SubSeq(s, 2, Len(s)), old)

\* ------------------------------------------------------------ package strconv
Digit == {"0", "1", "2", "3", "4", "5", "6", "7", "8", "9"}

DigitVal(c) ==
    CASE c = "0" -> 0 [] c = "1" -> 1 [] c = "2" -> 2 [] c = "3" -> 3
      [] c = "4" -> 4 [] c = "5" -> 5 [] c = "6" -> 6 [] c = "7" -> 7
      [] c = "8" -> 8 [] c = "9" -> 9

AllDigits(s) == s # <<>> /\ \A i \in 1..Len(s) : s[i] \in Digit

RECURSIVE DecimalValue(_)
DecimalValue(s) ==
    IF s = <<>> THEN 0
    ELSE 10 * DecimalValue(SubSeq(s, 1, Len(s) - 1)) + DigitVal(s[Len(s)])

\* strconv.ParseUint(s, 10, 64): digits only, no sign; out of range is an error
ParseUint(s) ==
    IF AllDigits(s) /\ DecimalValue(s) < Modulus
    THEN [ok |-> TRUE, val |-> DecimalValue(s)]
    ELSE [ok |-> FALSE, val |-> 0]

\* strconv.Atoi(s): an optional sign, then digits
Atoi(s) ==
    LET signed == s # <<>> /\ s[1] \in {"+", "-"}
        body   == IF signed THEN SubSeq(s, 2, Len(s)) ELSE s
    IN  IF AllDigits(body) /\ DecimalValue(body) < Modulus
        THEN [ok |-> TRUE,
              val |-> IF signed /\ s[1] = "-" THEN 0 - DecimalValue(body)
                      ELSE DecimalValue(body)]
        ELSE [ok |-> FALSE, val |-> 0]

\* ------------------------------------------------------------ the texts
\* 'node'
TxtNode ==
    <<"n", "o", "d", "e">>

\* 'MemTotal'
TxtMemTotal ==
    <<"M", "e", "m", "T", "o", "t", "a", "l">>

\* 'MemFree'
TxtMemFree ==
    <<"M", "e", "m", "F", "r", "e", "e">>

\* 'Active(file)'
TxtActiveFile ==
    <<"A", "c", "t", "i", "v", "e", "(", "f", "i", "l", "e", ")">>

\* 'Inactive(file)'
TxtInactiveFile ==
    <<"I", "n", "a", "c", "t", "i", "v", "e", "(", "f", "i", "l", "e", ")">>

\* 'SReclaimable'
TxtSReclaimable ==
    <<"S", "R", "e", "c", "l", "a", "i", "m", "a", "b", "l", "e">>

\* ' kB'
TxtKB ==
    <<" ", "k", "B">>

\* 'node0'
NameNode0 ==
    <<"n", "o", "d", "e", "0">>

\* 'node1'
NameNode1 ==
    <<"n", "o", "d", "e", "1">>

\* 'possible'
NamePossible ==
    <<"p", "o", "s", "s", "i", "b", "l", "e">>

\* 'power'
NamePower ==
    <<"p", "o", "w", "e", "r">>

\* 'node2'
NameNode2 ==
    <<"n", "o", "d", "e", "2">>

\* 'nodeX'
NameNodeX ==
    <<"n", "o", "d", "e", "X">>

\* 'Node 0 MemTotal:       8 kB'
MemTotal8 ==
    <<"N", "o", "d", "e", " ", "0", " ", "M", "e", "m", "T", "o", "t", "a",
    "l", ":", " ", " ", " ", " ", " ", " ", " ", "8", " ", "k", "B">>

\* 'Node 0 MemFree: 8 kB'
MemFree8 ==
    <<"N", "o", "d", "e", " ", "0", " ", "M", "e", "m", "F", "r", "e", "e",
    ":", " ", "8", " ", "k", "B">>

\* 'Node 0 MemFree:   0 kB'
MemFree0 ==
    <<"N", "o", "d", "e", " ", "0", " ", "M", "e", "m", "F", "r", "e", "e",
    ":", " ", " ", " ", "0", " ", "k", "B">>

\* 'Node 1 MemFree: 1 kB'
MemFree1 ==
    <<"N", "o", "d", "e", " ", "1", " ", "M", "e", "m", "F", "r", "e", "e",
    ":", " ", "1", " ", "k", "B">>

\* 'Node 1 MemFree: 2 kB'
MemFree2 ==
    <<"N", "o", "d", "e", " ", "1", " ", "M", "e", "m", "F", "r", "e", "e",
    ":", " ", "2", " ", "k", "B">>

\* 'Node 0 Active(file): 2 kB'
Active2 ==
    <<"N", "o", "d", "e", " ", "0", " ", "A", "c", "t", "i", "v", "e", "(",
    "f", "i", "l", "e", ")", ":", " ", "2", " ", "k", "B">>

\* 'Node 0 Inactive(file): 2 kB'
Inactive2 ==
    <<"N", "o", "d", "e", " ", "0", " ", "I", "n", "a", "c", "t", "i", "v",
    "e", "(", "f", "i", "l", "e", ")", ":", " ", "2", " ", "k", "B">>

\* 'Node 0 SReclaimable: 4 kB'
SRecl4 ==
    <<"N", "o", "d", "e", " ", "0", " ", "S", "R", "e", "c", "l", "a", "i",
    "m", "a", "b", "l", "e", ":", " ", "4", " ", "k", "B">>

\* 'Node 0 SReclaimable:  12 kB'
SRecl12 ==
    <<"N", "o", "d", "e", " ", "0", " ", "S", "R", "e", "c", "l", "a", "i",
    "m", "a", "b", "l", "e", ":", " ", " ", "1", "2", " ", "k", "B">>

\* 'Node 0 HugePages_Total: 0'
HugePages ==
    <<"N", "o", "d", "e", " ", "0", " ", "H", "u", "g", "e", "P", "a", "g",
    "e", "s", "_", "T", "o", "t", "a", "l", ":", " ", "0">>

\* 'MemFree: 3 kB'
ShortKey ==
    <<"M", "e", "m", "F", "r", "e", "e", ":", " ", "3", " ", "k", "B">>

\* 'Node 0 MemFree 5 kB'
NoColon ==
    <<"N", "o", "d", "e", " ", "0", " ", "M", "e", "m", "F", "r", "e", "e",
    " ", "5", " ", "k", "B">>

\* 'Node 0 MemFree: 5: kB'
TwoColons ==
    <<"N", "o", "d", "e", " ", "0", " ", "M", "e", "m", "F", "r", "e", "e",
    ":", " ", "5", ":", " ", "k", "B">>

\* 'Node 0 MemFree: x kB'
MemFreeBad ==
    <<"N", "o", "d", "e", " ", "0", " ", "M", "e", "m", "F", "r", "e", "e",
    ":", " ", "x", " ", "k", "B">>

\* '0-3\n'
Cpu0to3 ==
    <<"0", "-", "3", "\n">>

\* '5-5'
Cpu5to5 ==
    <<"5", "-", "5">>

\* '3-1\n'
Cpu3to1 ==
    <<"3", "-", "1", "\n">>

\* '10-12\n'
Cpu10to12 ==
    <<"1", "0", "-", "1", "2", "\n">>

\* 'badrange\n'
CpuBadRange ==
    <<"b", "a", "d", "r", "a", "n", "g", "e", "\n">>

\* 'a-5\n'
CpuA5 ==
    <<"a", "-", "5", "\n">>

\* '5-a'
Cpu5A ==
    <<"5", "-", "a">>

\* '1-2-3\n'
CpuThree ==
    <<"1", "-", "2", "-", "3", "\n">>

\* '        low      1'
ZoneLow1 ==
    <<" ", " ", " ", " ", " ", " ", " ", " ", "l", "o", "w", " ", " ", " ",
    " ", " ", " ", "1">>

\* 'low 2'
ZoneLow2 ==
    <<"l", "o", "w", " ", "2">>

\* '        min      5'
ZoneMin ==
    <<" ", " ", " ", " ", " ", " ", " ", " ", "m", "i", "n", " ", " ", " ",
    " ", " ", " ", "5">>

\* 'low'
ZoneLowOnly ==
    <<"l", "o", "w">>

\* 'low x'
ZoneLowX ==
    <<"l", "o", "w", " ", "x">>

\* 'Node 0, zone DMA'
ZoneHeader ==
    <<"N", "o", "d", "e", " ", "0", ",", " ", "z", "o", "n", "e", " ", "D",
    "M", "A">>

\* 'low'
TxtLow ==
    <<"l", "o", "w">>

\* 'Node'
TxtNodeLabel ==
    <<"N", "o", "d", "e">>

\* ------------------------------------------------------------------- inputs
\* a file the code opens: either it cannot be opened, or it has lines
Unreadable == [readable |-> FALSE, lines |-> <<>>]

File(ls) == [readable |-> TRUE, lines |-> ls]

\* a file the code reads whole
NoContent == [readable |-> FALSE, text |-> <<>>]

Content(s) == [readable |-> TRUE, text |-> s]

\* entries of /sys/devices/system/node/
DirEntries ==
    { [name |-> NameNode0, isDir |-> TRUE],
      [name |-> NameNode1, isDir |-> TRUE],
      [name |-> NamePossible, isDir |-> FALSE],
      [name |-> NamePower, isDir |-> TRUE],
      [name |-> NameNode2, isDir |-> FALSE],
      [name |-> NameNodeX, isDir |-> TRUE] }

RECURSIVE Listings(_)
Listings(n) ==
    IF n = 0 THEN {<<>>}
    ELSE Listings(n - 1) \cup
         { Append(l, e) : l \in { k \in Listings(n - 1) : Len(k) = n - 1 },
                          e \in DirEntries }

\* a directory holds no two entries of the same name
DirListings ==
    { l \in Listings(MaxEntries) :
        \A i, j \in 1..Len(l) : i # j => l[i].name # l[j].name }

\* contents of node<N>/meminfo
MemFiles ==
    { Unreadable,
      File(<<MemTotal8, MemFree8, Active2, Inactive2, SRecl4>>),
      File(<<MemTotal8, MemFree0, SRecl12>>),
      File(<<HugePages, ShortKey, MemFree1, NoColon, MemFree2, TwoColons, <<>>>>),
      File(<<MemTotal8, MemFreeBad, MemFree8>>) }

\* contents of node<N>/cpulist
CpuFiles ==
    { NoContent, Content(<<>>),
      Content(Cpu0to3), Content(Cpu5to5), Content(Cpu3to1), Content(Cpu10to12),
      Content(CpuBadRange), Content(CpuA5), Content(Cpu5A), Content(CpuThree) }

\* contents of /proc/zoneinfo
ZoneFiles ==
    { Unreadable, File(<<>>),
      File(<<ZoneHeader, ZoneMin, ZoneLow1>>),
      File(<<ZoneLow1, ZoneMin, ZoneLow2>>),
      File(<<ZoneLowX, ZoneLow1>>),
      File(<<ZoneMin, <<>>, ZoneLow1>>),
      File(<<ZoneLow1, ZoneLowOnly>>) }

\* ------------------------------------------------------------------- errors
NoError == [kind |-> "none", text |-> <<>>, wrap |-> "none"]

Error(kind, text) == [kind |-> kind, text |-> text, wrap |-> "none"]

\* fmt.Errorf("<wrap>: %w", err)
Wrap(w, err) == [err EXCEPT !.wrap = w]

\* ------------------------------------------------------------- parseMemInfo
ZeroMemInfo ==
    [MemTotal |-> 0, MemFree |-> 0, ActiveFile |-> 0, InactiveFile |-> 0,
     SReclaimable |-> 0]

\* the switch on key: the field a key names
FieldOf(key) ==
    CASE key = TxtMemTotal     -> "MemTotal"
      [] key = TxtMemFree      -> "MemFree"
      [] key = TxtActiveFile   -> "ActiveFile"
      [] key = TxtInactiveFile -> "InactiveFile"
      [] key = TxtSReclaimable -> "SReclaimable"
      [] OTHER                 -> "none"

\* a conversion by the decimal kilo
ScaleKBDecimal(t) == (t * 1000) % Modulus

\* t * 1024 in uint64
ScaleKB(t) == (t * KB) % Modulus

\* the body of the scanner loop for one line: the record after the line,
\* and whether the function goes on (ok) or returns memInfo{}, err
ProcessMemLine(rec, text) ==
    LET tokens == Split(text, ":")
    IN  IF Len(tokens) # 2 THEN [m |-> rec, ok |-> TRUE]
        ELSE
        LET keyTokens == Split(TrimSpace(tokens[1]), " ")
        IN  IF Len(keyTokens) # 3 THEN [m |-> rec, ok |-> TRUE]
            ELSE
            LET key   == keyTokens[3]
                value == RemoveAll(TrimSpace(tokens[2]), TxtKB)
                t     == ParseUint(value)
            IN  IF FieldOf(key) = "none" THEN [m |-> rec, ok |-> TRUE]
                ELSE IF ~t.ok THEN [m |-> ZeroMemInfo, ok |-> FALSE]
                ELSE [m |-> [rec EXCEPT ![FieldOf(key)] = ScaleKB(t.val)],
                      ok |-> TRUE]

\* ------------------------------------------------------------- parseCpuList
\* a loop that stops before last: i < last
CpuRangeExclusive(first, last) ==
    IF first >= last THEN <<>>
    ELSE [i \in 1..(last - first) |-> first + i - 1]

\* for i := first; i <= last; i++ { ids = append(ids, i) }
CpuRange(first, last) ==
    IF first > last THEN <<>>
    ELSE [i \in 1..(last - first + 1) |-> first + i - 1]

\* an error that quotes the trimmed text
FormatErrorTrimmed(f, trimmed) == Error("invalid format", trimmed)

\* fmt.Errorf("invalid format: %q", string(f))
FormatError(f, trimmed) == Error("invalid format", f)

parseCpuList(file) ==
    IF ~file.readable THEN [ids |-> <<>>, err |-> Error("io", <<>>)]
    ELSE
    LET f      == file.text
        tokens == Split(TrimRight(f, {"\n"}), "-")
    IN  IF Len(tokens) # 2
        THEN [ids |-> <<>>, err |-> FormatError(f, TrimRight(f, {"\n"}))]
        ELSE IF ~Atoi(tokens[1]).ok
        THEN [ids |-> <<>>, err |-> Error("convert first", tokens[1])]
        ELSE IF ~Atoi(tokens[2]).ok
        THEN [ids |-> <<>>, err |-> Error("convert last", tokens[2])]
        ELSE [ids |-> CpuRange(Atoi(tokens[1]).val, Atoi(tokens[2]).val),
              err |-> NoError]

\* ------------------------------------------------- calculateAvailableMemory
\* math.Min over float64 values; the conversions are exact below 2^53
Min(a, b) == IF a <= b THEN a ELSE b

\* a fallback that leaves the reclaimable slab out
FallbackSumNoSlab(rec) ==
    (rec.MemFree + rec.ActiveFile + rec.InactiveFile) % Modulus

\* the return of the err != nil branch
FallbackSum(rec) ==
    (rec.MemFree + rec.SReclaimable + rec.ActiveFile + rec.InactiveFile)
        % Modulus

\* the statements after the err check, in uint64 arithmetic
Estimate(rec, wl) ==
    LET memAvailable1 == (rec.MemFree - wl) % Modulus
        pageCache1    == (rec.ActiveFile + rec.InactiveFile) % Modulus
        pageCache2    == (pageCache1 - Min(pageCache1 \div 2, wl)) % Modulus
        memAvailable2 == (memAvailable1 + pageCache2) % Modulus
        slab          == (rec.SReclaimable
                           - Min(rec.SReclaimable \div 2, wl)) % Modulus
        memAvailable3 == (memAvailable2 + slab) % Modulus
    IN  IF memAvailable3 < 0 THEN 0 ELSE memAvailable3

\* ---------------------------------------------------------- getWatermarkLow
\* the body of the scanner loop for one line: the sum after the line, or a
\* run-time panic (index out of range) when fields[0] or fields[1] is missing
ProcessZoneLine(sum, text) ==
    LET fields == Fields(text)
    IN  IF Len(fields) < 1 THEN [sum |-> sum, panic |-> TRUE]
        ELSE IF ~HasPrefix(fields[1], TxtLow) THEN [sum |-> sum, panic |-> FALSE]
        ELSE IF Len(fields) < 2 THEN [sum |-> sum, panic |-> TRUE]
        ELSE [sum |-> (sum + ParseUint(fields[2]).val) % Modulus,
              panic |-> FALSE]

\* watermarkLow * uint64(os.Getpagesize())
ToBytes(pages) == (pages * PageSize) % Modulus

\* ----------------------------------------------------------------- GetNodes
\* a filter without the IsDir test
IsNodeEntryAnyKind(e) == HasPrefix(e.name, TxtNode)

\* the two "continue" tests of the loop, negated
IsNodeEntry(e) == e.isDir /\ HasPrefix(e.name, TxtNode)

\* a return that hands back the nodes assembled so far
ErrorResultPartial(ns) == ns

\* "return nil, err"
ErrorResult(ns) == <<>>

VARIABLES
    dirOK,          \* whether os.ReadDir succeeds
    dir,            \* the listing os.ReadDir returns
    zoneFile,       \* /proc/zoneinfo
    pc,             \* position of the call
    idx,            \* index of the range loop over dir
    nodes,          \* var nodes []Node
    nodeID,
    memFile,        \* the meminfo file of the node being assembled
    line,           \* next line of the meminfo scanner
    m,              \* var m memInfo / meminfo
    cpuFile,        \* the cpulist file of the node being assembled
    cpuIDs,
    zline,          \* next line of the zoneinfo scanner
    lowSum,         \* watermarkLow of getWatermarkLow (pages)
    watermarkLow,   \* watermarkLow of calculateAvailableMemory (bytes)
    memAvailable,   \* the value calculateAvailableMemory returns
    openHandles,    \* files opened by os.Open and not closed
    retNodes,       \* the results of the call
    retErr

vars ==
    <<dirOK, dir, zoneFile, pc, idx, nodes, nodeID, memFile, line, m, cpuFile,
      cpuIDs, zline, lowSum, watermarkLow, memAvailable, openHandles,
      retNodes, retErr>>

inputs == <<dirOK, dir, zoneFile>>

memVars == <<memFile, line, m>>

cpuVars == <<cpuFile, cpuIDs>>

zoneVars == <<zline, lowSum, watermarkLow, memAvailable>>

results == <<retNodes, retErr>>

Init ==
    /\ dirOK \in BOOLEAN
    /\ dir \in DirListings
    /\ zoneFile \in ZoneFiles
    /\ pc = "start"
    /\ idx = 1
    /\ nodes = <<>>
    /\ nodeID = 0
    /\ memFile = Unreadable
    /\ line = 1
    /\ m = ZeroMemInfo
    /\ cpuFile = NoContent
    /\ cpuIDs = <<>>
    /\ zline = 1
    /\ lowSum = 0
    /\ watermarkLow = 0
    /\ memAvailable = 0
    /\ openHandles = 0
    /\ retNodes = <<>>
    /\ retErr = NoError

\* return ns, err
Return(ns, err) ==
    /\ pc' = "done"
    /\ retNodes' = ns
    /\ retErr' = err

\* dir, err := os.ReadDir(...)
ReadDir ==
    /\ pc = "start"
    /\ IF dirOK
       THEN pc' = "loop" /\ UNCHANGED results
       ELSE Return(ErrorResult(nodes), Error("io", <<>>))
    /\ UNCHANGED <<inputs, idx, nodes, nodeID, memVars, cpuVars, zoneVars,
                   openHandles>>

\* the head of the range loop for an entry the loop skips
SkipEntry ==
    /\ pc = "loop"
    /\ idx <= Len(dir)
    /\ ~IsNodeEntry(dir[idx])
    /\ idx' = idx + 1
    /\ UNCHANGED <<inputs, pc, nodes, nodeID, memVars, cpuVars, zoneVars,
                   openHandles, results>>

\* nodeID, err := strconv.Atoi(strings.TrimPrefix(i.Name(), "node"))
EnterNode ==
    /\ pc = "loop"
    /\ idx <= Len(dir)
    /\ IsNodeEntry(dir[idx])
    /\ LET id == Atoi(TrimPrefix(dir[idx].name, TxtNode))
       IN  IF id.ok
           THEN /\ nodeID' = id.val
                /\ pc' = "meminfo"
                /\ UNCHANGED results
           ELSE /\ Return(ErrorResult(nodes), Error("syntax", <<>>))
                /\ UNCHANGED nodeID
    /\ UNCHANGED <<inputs, idx, nodes, memVars, cpuVars, zoneVars,
                   openHandles>>

\* parseMemInfo: f, err := os.Open(path); var m memInfo
OpenMemInfo ==
    /\ pc = "meminfo"
    /\ \E file \in MemFiles :
        /\ memFile' = file
        /\ IF file.readable
           THEN /\ openHandles' = openHandles + 1
                /\ line' = 1
                /\ m' = ZeroMemInfo
                /\ pc' = "scanMem"
                /\ UNCHANGED results
           ELSE /\ Return(ErrorResult(nodes), Wrap("parse meminfo", Error("io", <<>>)))
                /\ UNCHANGED <<openHandles, line, m>>
    /\ UNCHANGED <<inputs, idx, nodes, nodeID, cpuVars, zoneVars>>

\* parseMemInfo: one iteration of "for scanner.Scan()", or the return after it
ScanMemLine ==
    /\ pc = "scanMem"
    /\ IF line <= Len(memFile.lines)
       THEN LET r == ProcessMemLine(m, memFile.lines[line])
            IN  /\ m' = r.m
                /\ IF r.ok
                   THEN line' = line + 1 /\ UNCHANGED <<pc, results>>
                   ELSE /\ Return(ErrorResult(nodes),
                                  Wrap("parse meminfo", Error("syntax", <<>>)))
                        /\ UNCHANGED line
       ELSE /\ pc' = "cpulist"
            /\ UNCHANGED <<line, m, results>>
    /\ UNCHANGED <<inputs, idx, nodes, nodeID, memFile, cpuVars, zoneVars,
                   openHandles>>

\* cpuIDs, err := parseCpuList(...)
ParseCpuList ==
    /\ pc = "cpulist"
    /\ \E file \in CpuFiles :
        LET r == parseCpuList(file)
        IN  /\ cpuFile' = file
            /\ cpuIDs' = r.ids
            /\ IF r.err = NoError
               THEN pc' = "zoneinfo" /\ UNCHANGED results
               ELSE Return(ErrorResult(nodes), Wrap("parse cpulist", r.err))
    /\ UNCHANGED <<inputs, idx, nodes, nodeID, memVars, zoneVars, openHandles>>

\* calculateAvailableMemory calls getWatermarkLow: f, err := os.Open(...)
OpenZoneInfo ==
    /\ pc = "zoneinfo"
    /\ zline' = 1
    /\ lowSum' = 0
    /\ IF zoneFile.readable
       THEN /\ openHandles' = openHandles + 1
            /\ pc' = "scanZone"
            /\ UNCHANGED <<watermarkLow, memAvailable>>
       ELSE /\ watermarkLow' = 0
            /\ memAvailable' = FallbackSum(m)
            /\ pc' = "append"
            /\ UNCHANGED openHandles
    /\ UNCHANGED <<inputs, idx, nodes, nodeID, memVars, cpuVars, results>>

\* getWatermarkLow: one iteration of "for scanner.Scan()", or its return and
\* the rest of calculateAvailableMemory
ScanZoneLine ==
    /\ pc = "scanZone"
    /\ IF zline <= Len(zoneFile.lines)
       THEN LET r == ProcessZoneLine(lowSum, zoneFile.lines[zline])
            IN  /\ lowSum' = r.sum
                /\ IF r.panic
                   THEN pc' = "panic" /\ UNCHANGED zline
                   ELSE zline' = zline + 1 /\ UNCHANGED pc
                /\ UNCHANGED <<watermarkLow, memAvailable>>
       ELSE /\ watermarkLow' = ToBytes(lowSum)
            /\ memAvailable' = Estimate(m, ToBytes(lowSum))
            /\ pc' = "append"
            /\ UNCHANGED <<zline, lowSum>>
    /\ UNCHANGED <<inputs, idx, nodes, nodeID, memVars, cpuVars, openHandles,
                   results>>

\* nodes = append(nodes, Node{...}); the locals of the loop body end here
AppendNode ==
    /\ pc = "append"
    /\ nodes' = Append(nodes, [ID |-> nodeID, CPU |-> cpuIDs,
                               MemAvailable |-> memAvailable,
                               MemFree |-> m.MemFree, MemTotal |-> m.MemTotal])
    /\ idx' = idx + 1
    /\ pc' = "loop"
    /\ nodeID' = 0
    /\ memFile' = Unreadable /\ line' = 1 /\ m' = ZeroMemInfo
    /\ cpuFile' = NoContent /\ cpuIDs' = <<>>
    /\ zline' = 1 /\ lowSum' = 0 /\ watermarkLow' = 0 /\ memAvailable' = 0
    /\ UNCHANGED <<inputs, openHandles, results>>

\* return nodes, nil
ReturnNodes ==
    /\ pc = "loop"
    /\ idx > Len(dir)
    /\ Return(nodes, NoError)
    /\ UNCHANGED <<inputs, idx, nodes, nodeID, memVars, cpuVars, zoneVars,
                   openHandles>>

Next ==
    \/ ReadDir
    \/ SkipEntry
    \/ EnterNode
    \/ OpenMemInfo
    \/ ScanMemLine
    \/ ParseCpuList
    \/ OpenZoneInfo
    \/ ScanZoneLine
    \/ AppendNode
    \/ ReturnNodes

Spec == Init /\ [][Next]_vars

TypeOK ==
    /\ pc \in {"start", "loop", "meminfo", "scanMem", "cpulist", "zoneinfo",
               "scanZone", "append", "done", "panic"}
    /\ memAvailable \in 0..(Modulus - 1)
    /\ watermarkLow \in 0..(Modulus - 1)
    /\ \A f \in DOMAIN m : m[f] \in 0..(Modulus - 1)
    /\ openHandles \in Nat

\* ============================================================== properties
MaxCpu == 12            \* largest CPU ID of the ranges compared
MaxN == 12              \* largest kB value of the well-formed lines compared
MaxPad == 7             \* most spaces between ':' and the value
MaxID == 3              \* largest node ID compared

DigitChar(d) ==
    CASE d = 0 -> "0" [] d = 1 -> "1" [] d = 2 -> "2" [] d = 3 -> "3"
      [] d = 4 -> "4" [] d = 5 -> "5" [] d = 6 -> "6" [] d = 7 -> "7"
      [] d = 8 -> "8" [] d = 9 -> "9"

\* the decimal numeral of a natural number
RECURSIVE Numeral(_)
Numeral(n) ==
    IF n < 10 THEN <<DigitChar(n)>>
    ELSE Append(Numeral(n \div 10), DigitChar(n % 10))

Spaces(k) == [i \in 1..k |-> " "]

Positions(s, c) == { i \in 1..Len(s) : s[i] = c }

\* a text is an integer numeral: an optional sign and at least one digit
IsIntegerText(s) ==
    \/ AllDigits(s)
    \/ Len(s) >= 2 /\ s[1] \in {"+", "-"} /\ AllDigits(SubSeq(s, 2, Len(s)))

\* ---- C1
\* the estimate of the claim, over the (signed) integers
SignedEstimate(rec, wl) ==
    LET pageCache == rec.ActiveFile + rec.InactiveFile
        sum == rec.MemFree - wl
               + (pageCache - Min(pageCache \div 2, wl))
               + (rec.SReclaimable - Min(rec.SReclaimable \div 2, wl))
    IN  IF sum < 0 THEN 0 ELSE sum

\* C1: with zoneinfo readable, the value calculateAvailableMemory returns is
\* max(0, MemFree - watermarkLow + reduced page cache + reduced slab), the sum
\* taken over the signed integers; a negative sum gives 0, never a wrapped
\* large value.
C1_ClampedEstimate ==
    (pc = "append" /\ zoneFile.readable)
        => memAvailable = SignedEstimate(m, watermarkLow)

\* ---- C2
PlainSum(rec) ==
    rec.MemFree + rec.SReclaimable + rec.ActiveFile + rec.InactiveFile

\* C2: when /proc/zoneinfo cannot be opened, calculateAvailableMemory returns
\* exactly MemFree + SReclaimable + ActiveFile + InactiveFile, the node is
\* appended with that MemAvailable, and the call goes on to the next entry
\* instead of failing.
C2_FallbackAbsorbed ==
    [][ ~zoneFile.readable =>
          /\ pc = "zoneinfo" => pc' = "append" /\ memAvailable' = PlainSum(m)
          /\ pc = "append" =>
                /\ pc' = "loop"
                /\ Len(nodes') = Len(nodes) + 1
                /\ nodes'[Len(nodes')].MemAvailable = PlainSum(m)
                /\ SubSeq(nodes', 1, Len(nodes)) = nodes
          /\ pc' \notin {"scanZone", "panic"} ]_vars

C2_Witness ==
    /\ pc = "done" /\ ~zoneFile.readable /\ retErr = NoError
    /\ Len(retNodes) = 2
    /\ retNodes[1].MemAvailable = 16 * KB
    /\ retNodes[1].MemFree = 8 * KB

\* ---- C3
\* C3: the estimate is monotonic in MemFree: with the other fields and the
\* watermark fixed, a smaller MemFree never gives a larger estimate.
C3_MonotonicInMemFree ==
    (pc = "append" /\ zoneFile.readable) =>
        \A k \in 0..MaxKB :
            k * KB <= m.MemFree =>
                Estimate([m EXCEPT !.MemFree = k * KB], watermarkLow)
                    <= memAvailable

\* ---- C4
\* a step at which the directory read, the node-ID parse, the meminfo parse or
\* the cpulist parse fails
FailureHere ==
    \/ pc = "start" /\ ~dirOK
    \/ /\ pc = "loop" /\ idx <= Len(dir)
       /\ dir[idx].isDir /\ HasPrefix(dir[idx].name, TxtNode)
       /\ ~IsIntegerText(SubSeq(dir[idx].name, 5, Len(dir[idx].name)))
    \/ pc = "meminfo" /\ ~memFile'.readable
    \/ /\ pc = "scanMem" /\ line <= Len(memFile.lines)
       /\ ~ProcessMemLine(m, memFile.lines[line]).ok
    \/ pc = "cpulist" /\ parseCpuList(cpuFile').err # NoError

\* C4: GetNodes is all-or-nothing: a failure at any entry returns an error and
\* a nil collection whatever was assembled before; an error never comes with
\* nodes, and nodes are returned only after the whole listing was processed.
C4_AllOrNothing ==
    /\ [](pc = "done" =>
            /\ retErr # NoError => retNodes = <<>>
            /\ retNodes # <<>> => retErr = NoError
            /\ retErr = NoError => dirOK /\ idx > Len(dir) /\ retNodes = nodes)
    /\ [][ FailureHere =>
             pc' = "done" /\ retNodes' = <<>> /\ retErr' # NoError ]_vars

C4_Witness ==
    /\ pc = "done" /\ retErr.wrap = "parse cpulist"
    /\ Len(nodes) = 1 /\ idx = 2
    /\ retNodes = <<>>

\* ---- C5
RangeText(a, b, nl) ==
    Numeral(a) \o <<"-">> \o Numeral(b) \o (IF nl THEN <<"\n">> ELSE <<>>)

RangeTexts ==
    { [first |-> a, last |-> b, text |-> RangeText(a, b, nl)] :
        a \in 0..MaxCpu, b \in 0..MaxCpu, nl \in BOOLEAN }

\* C5: for a cpulist "<first>-<last>" (with or without a newline) parseCpuList
\* returns no error and the IDs first..last: last-first+1 of them, starting at
\* first, each the previous plus one; for first > last, no IDs and no error.
C5_RangeParsed ==
    \A r \in RangeTexts :
        (cpuFile.readable /\ cpuFile.text = r.text) =>
            /\ pc # "done"
            /\ IF r.first > r.last THEN cpuIDs = <<>>
               ELSE /\ Len(cpuIDs) = r.last - r.first + 1
                    /\ cpuIDs[1] = r.first
                    /\ cpuIDs[Len(cpuIDs)] = r.last
                    /\ \A i \in 1..(Len(cpuIDs) - 1) :
                           cpuIDs[i + 1] = cpuIDs[i] + 1

C5_Witness ==
    /\ pc = "zoneinfo"
    /\ cpuFile = Content(Cpu10to12)
    /\ cpuIDs = <<10, 11, 12>>

\* ---- C6
FieldNames ==
    [MemTotal |-> TxtMemTotal, MemFree |-> TxtMemFree,
     ActiveFile |-> TxtActiveFile, InactiveFile |-> TxtInactiveFile,
     SReclaimable |-> TxtSReclaimable]

\* "<label> <index> <Field>: <n> kB"
WellFormedLine(label, index, field, pad, n) ==
    label \o <<" ">> \o index \o <<" ">> \o FieldNames[field] \o <<":">>
        \o Spaces(pad) \o Numeral(n) \o TxtKB

WellFormedLines ==
    { [field |-> f, n |-> n,
       text |-> WellFormedLine(TxtNodeLabel, Numeral(ix), f, pad, n)] :
        f \in DOMAIN FieldNames, n \in 0..MaxN, pad \in 0..MaxPad,
        ix \in 0..1 }

MemLines == UNION { { f.lines[i] : i \in 1..Len(f.lines) } : f \in MemFiles }

\* for each line of the files, the (field, n) it is a well-formed line of
LineFacts ==
    [l \in MemLines |->
        { [field |-> w.field, n |-> w.n] : w \in { v \in WellFormedLines : v.text = l } }]

\* a line the parser is to ignore: not exactly one ':', or a left part that is
\* not three space-separated tokens, or a field name that is not recognized
Ignorable(l) ==
    \/ Cardinality(Positions(l, ":")) # 1
    \/ LET p    == CHOOSE i \in Positions(l, ":") : TRUE
           left == Split(TrimSpace(SubSeq(l, 1, p - 1)), " ")
       IN  \/ Len(left) # 3
           \/ \A f \in DOMAIN FieldNames : left[3] # FieldNames[f]

\* C6: after parseMemInfo has scanned a file without error, every recognized
\* field holds 1024 * n of the (last) well-formed line that names it, or 0 when
\* no line names it; an ignorable line changes nothing and raises no error.
C6_FieldsRecovered ==
    /\ [](memFile.readable /\ line > Len(memFile.lines) =>
            \A f \in DOMAIN FieldNames :
                LET occ == { i \in 1..Len(memFile.lines) :
                               \E w \in LineFacts[memFile.lines[i]] : w.field = f }
                IN  IF occ = {} THEN m[f] = 0
                    ELSE LET last == CHOOSE i \in occ : \A j \in occ : j <= i
                         IN  \E w \in LineFacts[memFile.lines[last]] :
                                w.field = f /\ m[f] = 1024 * w.n)
    /\ [][ (pc = "scanMem" /\ line <= Len(memFile.lines)
              /\ Ignorable(memFile.lines[line]))
            => m' = m /\ pc' = "scanMem" /\ line' = line + 1
               /\ retErr' = NoError ]_vars

C6_Witness ==
    /\ pc = "cpulist"
    /\ memFile = File(<<HugePages, ShortKey, MemFree1, NoColon, MemFree2,
                        TwoColons, <<>>>>)
    /\ m.MemFree = 2048 /\ m.MemTotal = 0

\* ---- C7
\* C7: on success the nodes are, in listing order, exactly the entries that
\* are directories named "node..."; each ID is the integer after "node".
C7_OneNodePerNodeDir ==
    (pc = "done" /\ retErr = NoError) =>
        LET sel == SelectSeq(dir, LAMBDA e : e.isDir /\ HasPrefix(e.name, TxtNode))
        IN  /\ Len(retNodes) = Len(sel)
            /\ \A i \in 1..Len(sel) :
                 /\ retNodes[i].ID \in 0..MaxID
                 /\ sel[i].name = TxtNode \o Numeral(retNodes[i].ID)

C7_Witness ==
    /\ pc = "done" /\ retErr = NoError
    /\ Len(dir) = 2 /\ dir[1].name = NamePossible /\ dir[2].name = NameNode1
    /\ Len(retNodes) = 1 /\ retNodes[1].ID = 1

\* ---- C8
\* C8: a cpulist that, trimmed of trailing newlines, has not exactly one '-'
\* gives "invalid format" quoting the original text; otherwise a non-integer
\* first segment gives "convert first" naming it, otherwise a non-integer last
\* segment gives "convert last" naming it; none of them yields CPU IDs.
C8_MalformedRejected ==
    cpuFile.readable =>
        LET trimmed == TrimRight(cpuFile.text, {"\n"})
            dashes  == Positions(trimmed, "-")
            p       == CHOOSE i \in dashes : TRUE
            first   == SubSeq(trimmed, 1, p - 1)
            last    == SubSeq(trimmed, p + 1, Len(trimmed))
            Rejected(kind, text) ==
                /\ pc = "done" /\ retNodes = <<>> /\ cpuIDs = <<>>
                /\ retErr.wrap = "parse cpulist"
                /\ retErr.kind = kind /\ retErr.text = text
        IN  IF Cardinality(dashes) # 1
            THEN Rejected("invalid format", cpuFile.text)
            ELSE IF ~IsIntegerText(first) THEN Rejected("convert first", first)
            ELSE IF ~IsIntegerText(last) THEN Rejected("convert last", last)
            ELSE pc # "done"

C8_Witness ==
    /\ pc = "done"
    /\ cpuFile = Content(CpuBadRange)
    /\ retErr.kind = "invalid format" /\ retErr.text = CpuBadRange

\* ---- C9
\* C9: every file opened during the call is closed when the call returns.
C9_HandlesClosed == pc = "done" => openHandles = 0

\* ---- C10
\* the pages of the lines whose first field starts with "low"
RECURSIVE LowPages(_)
LowPages(ls) ==
    IF ls = <<>> THEN 0
    ELSE LET fields == Fields(ls[Len(ls)])
             pages  == IF Len(fields) >= 1 /\ HasPrefix(fields[1], TxtLow)
                          /\ Len(fields) >= 2 /\ AllDigits(fields[2])
                       THEN DecimalValue(fields[2]) ELSE 0
         IN  LowPages(SubSeq(ls, 1, Len(ls) - 1)) + pages

\* C10: once zoneinfo is open the scan completes whatever the lines are and
\* returns pageSize * the sum of the second fields of the "low..." lines (a
\* non-numeric or missing second field counting 0).
C10_ScanCompletes ==
    zoneFile.readable =>
        /\ pc # "panic"
        /\ pc = "append" => watermarkLow = PageSize * LowPages(zoneFile.lines)

====
